---------------------------- MODULE Spec2Model ----------------------------
(***************************************************************************)
(* Model of src/app.py: the AI Opportunity & Change Readiness Evaluator.   *)
(*                                                                         *)
(* The program is a Streamlit script.  Every user interaction re-executes  *)
(* the whole script (lines 116-279) against the session's state: the       *)
(* stored use-case table (st.session_state.use_cases) and the widgets'     *)
(* values.  One action of Spec is therefore one interaction followed by    *)
(* the complete re-execution of the script.  ScoreSpec is the harness for  *)
(* compute_scores (lines 68-111) alone: it draws a table and five weights  *)
(* from bounded sets and calls the function, then calls it again.          *)
(*                                                                         *)
(* Numbers.  A weight slider moves in steps of 0.5 from 0.0 to 5.0, so a   *)
(* weight is an integer count of half units (2.5 is 5).  Ratings are       *)
(* integers.  A score is an exact fraction <<numerator, denominator>> in   *)
(* lowest terms with a positive denominator; products and sums of integer  *)
(* ratings with multiples of 0.5 are exact in binary floating point, so    *)
(* equal fractions are equal floats.                                       *)
(***************************************************************************)
EXTENDS Integers, Sequences, FiniteSets

VARIABLES
    csv_file,        \* DATA_PATH's parsed content, or the marker of no file
    has_use_cases,   \* "use_cases" in st.session_state
    use_cases,       \* st.session_state.use_cases
    weights,         \* the five sidebar sliders' values, in half units
    editor_data,     \* the data the data_editor widget on screen was built from
    editor_view,     \* that data with the widget's edit state applied
    topn_max,        \* max_value of the "top N" slider on screen (0: not on screen)
    top_n,           \* that slider's value
    scored_df,       \* line 173
    sorted_df,       \* line 187
    top_df,          \* line 243
    narrative,       \* what lines 262-279 wrote
    status,          \* how the last execution of the script ended
    steps            \* interactions so far (bounded by MaxSteps)

vars == <<csv_file, has_use_cases, use_cases, weights, editor_data, editor_view,
          topn_max, top_n, scored_df, sorted_df, top_df, narrative, status, steps>>

----------------------------------------------------------------------------
(* Bounds of the model *)

MaxSteps == 2

MaxRows == 4

MaxContext == 1

(* Program constants *)

SliderMax == 10

HalfStepsPerUnit == 2

ReadinessFlip == 5

ReadinessParts == 4

TopNDefault == 5

----------------------------------------------------------------------------
(* Cells, rows and tables *)

Num(n) == [k |-> "num", n |-> n, s |-> ""]

NA == [k |-> "na", n |-> 0, s |-> ""]

Text(t) == [k |-> "text", n |-> 0, s |-> t]

\* A derived column that the table does not have.
NoCol == <<0, -1>>

RatingCols == {"bv", "tf", "dr", "ci", "rk"}

UseCase(name, bv, tf, dr, ci, rk, owner, notes) ==
    [name |-> name, bv |-> bv, tf |-> tf, dr |-> dr, ci |-> ci, rk |-> rk,
     owner |-> owner, notes |-> notes, ps |-> NoCol, rs |-> NoCol]

\* Texts that pd.to_numeric parses, with the number each parses to.
NumericText == [t \in {"4", "-2"} |-> IF t = "4" THEN 4 ELSE -2]

----------------------------------------------------------------------------
(* Exact fractions *)

Abs(n) == IF n < 0 THEN -n ELSE n

RECURSIVE GCD(_, _)
GCD(a, b) == IF b = 0 THEN a ELSE GCD(b, a % b)

\* n / d in lowest terms.  Division by 0.0 raises nothing in pandas: it gives
\* inf, -inf or NaN, written <<1, 0>>, <<-1, 0>> and <<0, 0>>.
Rat(n, d) ==
    IF d = 0
       THEN <<(IF n > 0 THEN 1 ELSE IF n < 0 THEN -1 ELSE 0), 0>>
       ELSE LET g == GCD(Abs(n), d) IN <<n \div g, d \div g>>

NaN == <<0, 0>>

RatLess(a, b) == a[1] * b[2] < b[1] * a[2]

----------------------------------------------------------------------------
(* compute_scores, lines 68-111 *)

\* pd.to_numeric(..., errors="coerce") on one element: a number, or NaN.
ToNumeric(cell) ==
    CASE cell.k = "num" -> cell
      [] cell.k = "text" /\ cell.s \in DOMAIN NumericText -> Num(NumericText[cell.s])
      [] OTHER -> NA

\* Mutation: the .fillna(0) left out.
FillNaSkipped(cell) == cell

FillNa(cell) == IF cell.k = "na" THEN Num(0) ELSE cell

\* Mutation: .dropna() on the table in place of .fillna(0) on the column.
CoerceColumnDropna(df, col) ==
    SelectSeq([i \in 1..Len(df) |-> [df[i] EXCEPT ![col] = ToNumeric(@)]],
              LAMBDA row : row[col].k = "num")

\* df[col] = pd.to_numeric(df[col], errors="coerce").fillna(0)
CoerceColumn(df, col) ==
    [i \in 1..Len(df) |-> [df[i] EXCEPT ![col] = FillNa(ToNumeric(@))]]

CoerceRatings(df) ==
    CoerceColumn(CoerceColumn(CoerceColumn(CoerceColumn(CoerceColumn(
        df, "bv"), "tf"), "dr"), "ci"), "rk")

\* Mutation: the weights_sum == 0 test left out.
WeightsSumUnguarded(W) ==
    W.w_value + W.w_feas + W.w_data + W.w_change + W.w_risk

WeightsSum(W) ==
    LET s == W.w_value + W.w_feas + W.w_data + W.w_change + W.w_risk
    IN IF s = 0 THEN HalfStepsPerUnit ELSE s

\* Arithmetic on a NaN gives NaN.
HasNaN(row, cols) == \E c \in cols : row[c].k # "num"

\* Mutation: the change-impact and risk terms added.
PriorityScoreCostsAdded(row, W) ==
    IF HasNaN(row, RatingCols) THEN NaN ELSE
    Rat(row.bv.n * W.w_value + row.tf.n * W.w_feas + row.dr.n * W.w_data
          + row.ci.n * W.w_change + row.rk.n * W.w_risk,
        WeightsSum(W))

PriorityScore(row, W) ==
    IF HasNaN(row, RatingCols) THEN NaN ELSE
    Rat(row.bv.n * W.w_value + row.tf.n * W.w_feas + row.dr.n * W.w_data
          - row.ci.n * W.w_change - row.rk.n * W.w_risk,
        WeightsSum(W))

\* Mutation: Business Value read where Technical Feasibility belongs.
ReadinessScoreOfValue(row) ==
    IF HasNaN(row, RatingCols) THEN NaN ELSE
    Rat(row.bv.n + row.dr.n + (ReadinessFlip - row.ci.n) + (ReadinessFlip - row.rk.n),
        ReadinessParts)

ReadinessScore(row) ==
    IF HasNaN(row, {"tf", "dr", "ci", "rk"}) THEN NaN ELSE
    Rat(row.tf.n + row.dr.n + (ReadinessFlip - row.ci.n) + (ReadinessFlip - row.rk.n),
        ReadinessParts)

\* Mutation: the df.copy() left out.
CopyLeftOut == TRUE

\* df = df.copy(): the function's table is a new object, not the caller's.
CopyIsAlias == FALSE

\* The call's return value, and the caller's table as the call leaves it.
compute_scores(df, W) ==
    LET coerced == CoerceRatings(df)
        withPs == [i \in 1..Len(coerced) |->
                     [coerced[i] EXCEPT !.ps = PriorityScore(coerced[i], W)]]
        withRs == [i \in 1..Len(withPs) |->
                     [withPs[i] EXCEPT !.rs = ReadinessScore(withPs[i])]]
    IN [ret |-> withRs, arg |-> IF CopyIsAlias THEN withRs ELSE df]


----------------------------------------------------------------------------
(* load_initial_data, lines 16-65 *)

NoFile == [exists |-> FALSE, rows |-> <<>>]

CsvFile(rows) == [exists |-> TRUE, rows |-> rows]

DefaultSeed ==
    << UseCase("Intelligent document triage for claims",
               Num(5), Num(3), Num(3), Num(4), Num(3), "Operations",
               "High cost savings; requires integration with core systems."),
       UseCase("Member services AI copilot",
               Num(4), Num(4), Num(4), Num(3), Num(3), "Customer Service",
               "GenAI-based; frontline adoption is key."),
       UseCase("Provider data cleansing & matching",
               Num(4), Num(3), Num(2), Num(2), Num(2), "Data Management",
               "Improves downstream analytics & reporting."),
       UseCase("Internal knowledge retrieval assistant",
               Num(3), Num(5), Num(4), Num(2), Num(2), "Enterprise",
               "RAG-based Q&A over policies, SOPs, and training materials.") >>

load_initial_data(file) == IF file.exists THEN file.rows ELSE DefaultSeed

----------------------------------------------------------------------------
(* The widgets.  Streamlit identifies a widget by the parameters of the    *)
(* call that builds it.  A call whose parameters equal those of the widget *)
(* on screen returns that widget's value; a call with other parameters     *)
(* builds a new widget, which starts from its default.                     *)

\* Lines 126-130: the sliders' defaults 3.0, 2.5, 2.5, 2.0, 2.0.
DefaultWeights ==
    [w_value |-> 6, w_feas |-> 5, w_data |-> 5, w_change |-> 4, w_risk |-> 4]

WeightNames == {"w_value", "w_feas", "w_data", "w_change", "w_risk"}

\* Lines 159-163: st.data_editor(data, num_rows="dynamic", key=...).  The data
\* is a parameter of the call: the edits made on screen are returned only
\* when the call is given the data the widget on screen was built from.
data_editor(data, shown_data, shown_view) ==
    IF data = shown_data THEN shown_view ELSE data

Min(a, b) == IF a < b THEN a ELSE b

\* Line 242: st.slider(label, 1, n, min(5, n)).  A default below min_value
\* raises StreamlitAPIException.
top_n_slider(n, shown_max, shown_val) ==
    LET default == Min(TopNDefault, n)
    IN IF default < 1 \/ default > n
          THEN [ok |-> FALSE, max |-> 0, val |-> 0]
          ELSE IF shown_max = n
                  THEN [ok |-> TRUE, max |-> n, val |-> shown_val]
                  ELSE [ok |-> TRUE, max |-> n, val |-> default]

\* Lines 214-229: px.scatter(..., size="Priority Score").  plotly rejects a
\* negative marker size with ValueError.
ScatterSizesValid(df) == \A i \in 1..Len(df) : df[i].ps[1] >= 0 /\ df[i].ps # NaN

----------------------------------------------------------------------------
(* sort_values("Priority Score", ascending=False), lines 187 and 243.      *)
(* The call leaves kind at its default, "quicksort", which pandas and      *)
(* numpy document as not stable: rows with equal keys come out in an order *)
(* the build decides.                                                      *)

Permutations(n) ==
    {p \in [1..n -> 1..n] : \A i, j \in 1..n : p[i] = p[j] => i = j}

\* The permutations of every table length the model reaches.
PermutationsOf == [n \in 0..(MaxRows + 1) |-> Permutations(n)]

SortOrders(df) ==
    {p \in PermutationsOf[Len(df)] :
        \A i, j \in 1..Len(df) : i < j => ~RatLess(df[p[i]].ps, df[p[j]].ps)}

Reorder(df, p) == [i \in 1..Len(df) |-> df[p[i]]]

head(df, n) == SubSeq(df, 1, Min(n, Len(df)))

----------------------------------------------------------------------------
(* One execution of the script, lines 116-279.  view is the data_editor's  *)
(* table as the browser sends it, W the sliders' values, tn the top-N      *)
(* slider's value on screen.                                               *)

\* Lines 179-279 on the scored table: the two tabs that show it.  order is
\* the order sort_values gives the rows, the same at lines 187 and 243.
Render(scored, order, tn) ==
    LET ranked == Reorder(scored, order)
        slider == top_n_slider(Len(scored), topn_max, tn)
    IN /\ sorted_df' = ranked
       /\ IF ~ScatterSizesValid(scored)
             THEN /\ status' = "error_scatter"
                  /\ topn_max' = 0 /\ top_n' = 0
                  /\ top_df' = <<>> /\ narrative' = "none"
             ELSE IF ~slider.ok
             THEN /\ status' = "error_slider"
                  /\ topn_max' = 0 /\ top_n' = 0
                  /\ top_df' = <<>> /\ narrative' = "none"
             ELSE /\ status' = "ok"
                  /\ topn_max' = slider.max /\ top_n' = slider.val
                  /\ top_df' = head(ranked, slider.val)
                  /\ narrative' = IF head(ranked, slider.val) # <<>>
                                     THEN "highest" ELSE "warning"

RunScript(W, view, tn) ==
    LET stored == IF has_use_cases THEN use_cases ELSE load_initial_data(csv_file)
        edited_df == data_editor(stored, editor_data, view)
    IN \E call \in {compute_scores(edited_df, W)} :
          /\ has_use_cases' = TRUE
          /\ weights' = W
          /\ editor_data' = stored
          /\ editor_view' = edited_df
          /\ use_cases' = call.arg
          /\ scored_df' = call.ret
          /\ \E order \in SortOrders(call.ret) : Render(call.ret, order, tn)
          /\ UNCHANGED csv_file

----------------------------------------------------------------------------
(* The edits the data_editor offers (num_rows="dynamic") *)

\* A row as the editor adds it: every cell empty.
BlankRow == UseCase("", NA, NA, NA, NA, NA, "", "")

ApplyCellEdit(df, r, col, cell) == [df EXCEPT ![r][col] = cell]

ApplyNameEdit(df, r, name) == [df EXCEPT ![r].name = name]

ApplyAddRow(df) == Append(df, BlankRow)

ApplyDeleteRows(df, S) ==
    LET K == (1..Len(df)) \ S
    IN [i \in 1..Cardinality(K) |->
          df[CHOOSE j \in K : Cardinality({x \in K : x < j}) = i - 1]]

\* Inputs of the model's interactions
SliderStops == {0, SliderMax}

EditCells == {NA, Num(5)}

EditNames == {"Member services AI copilot"}

----------------------------------------------------------------------------
(* The session *)

TieCsv ==
    << UseCase("A", Num(3), Num(3), Num(3), Num(3), Num(3), "Ops", ""),
       UseCase("B", Num(3), Num(3), Num(3), Num(3), Num(3), "IT", "") >>

CsvFiles == {NoFile, CsvFile(<<>>), CsvFile(TieCsv)}

Init ==
    /\ csv_file \in CsvFiles
    /\ has_use_cases = FALSE
    /\ use_cases = <<>>
    /\ weights = DefaultWeights
    /\ editor_data = <<>>
    /\ editor_view = <<>>
    /\ topn_max = 0
    /\ top_n = 0
    /\ scored_df = <<>>
    /\ sorted_df = <<>>
    /\ top_df = <<>>
    /\ narrative = "none"
    /\ status = "new"
    /\ steps = 0

\* The browser opens the page: the first execution of the script.
SessionStart ==
    /\ status = "new"
    /\ RunScript(weights, editor_view, top_n)
    /\ UNCHANGED steps

Interactive == status # "new" /\ steps < MaxSteps

\* Mutation: the slider's new value stored, the scores not recomputed.
MoveWeightSliderNoRerun(c, v) ==
    /\ Interactive
    /\ weights[c] # v
    /\ weights' = [weights EXCEPT ![c] = v]
    /\ steps' = steps + 1
    /\ UNCHANGED <<csv_file, has_use_cases, use_cases, editor_data, editor_view,
                   topn_max, top_n, scored_df, sorted_df, top_df, narrative, status>>

MoveWeightSlider(c, v) ==
    /\ Interactive
    /\ weights[c] # v
    /\ RunScript([weights EXCEPT ![c] = v], editor_view, top_n)
    /\ steps' = steps + 1

EditCell(r, col, cell) ==
    /\ Interactive
    /\ editor_view[r][col] # cell
    /\ RunScript(weights, ApplyCellEdit(editor_view, r, col, cell), top_n)
    /\ steps' = steps + 1

EditName(r, name) ==
    /\ Interactive
    /\ editor_view[r].name # name
    /\ RunScript(weights, ApplyNameEdit(editor_view, r, name), top_n)
    /\ steps' = steps + 1

AddRow ==
    /\ Interactive
    /\ Len(editor_view) < MaxRows
    /\ RunScript(weights, ApplyAddRow(editor_view), top_n)
    /\ steps' = steps + 1

DeleteRows(S) ==
    /\ Interactive
    /\ RunScript(weights, ApplyDeleteRows(editor_view, S), top_n)
    /\ steps' = steps + 1

MoveTopN(n) ==
    /\ Interactive
    /\ topn_max > 0
    /\ n # top_n
    /\ RunScript(weights, editor_view, n)
    /\ steps' = steps + 1

Next ==
    \/ SessionStart
    \/ \E c \in WeightNames, v \in SliderStops : MoveWeightSlider(c, v)
    \/ \E r \in 1..Len(editor_view), col \in RatingCols, cell \in EditCells :
          EditCell(r, col, cell)
    \/ \E r \in 1..Len(editor_view), name \in EditNames : EditName(r, name)
    \/ AddRow
    \/ \E S \in (SUBSET (1..Len(editor_view))) \ {{}} : DeleteRows(S)
    \/ \E n \in 1..topn_max : MoveTopN(n)

Spec == Init /\ [][Next]_vars

----------------------------------------------------------------------------
(* ScoreSpec: compute_scores called on a table and weights drawn from      *)
(* bounded sets, then called a second time with the same arguments.        *)

ScoreCells == {Num(1), Num(5), NA, Text("abc")}

ScoreRows ==
    {UseCase("A", bv, tf, dr, ci, rk, "Ops", "n1") :
        bv \in ScoreCells, tf \in ScoreCells, dr \in ScoreCells,
        ci \in ScoreCells, rk \in ScoreCells}

\* The row put around the drawn row: it shares the drawn row's name and holds
\* numeric texts and ratings outside 1..5.
ContextRows ==
    {UseCase("A", Text("4"), Num(7), Text("-2"), Num(0), Num(3), "IT", "n2")}

ContextTables ==
    UNION {[1..n -> ContextRows] : n \in 0..MaxContext}

ScoreTables ==
    {<<>>, <<DefaultSeed[1]>>, DefaultSeed}
    \cup {a \o <<r>> \o b : a \in ContextTables, b \in ContextTables, r \in ScoreRows}

ScoreStops == {0, 5}

ScoreWeights == [WeightNames -> ScoreStops] \cup {DefaultWeights}

ScoreInit ==
    /\ use_cases \in {t \in ScoreTables : Len(t) <= MaxContext + 1 \/ t = DefaultSeed}
    /\ weights \in ScoreWeights
    /\ status = "call"
    /\ scored_df = <<>>
    /\ sorted_df = <<>>
    /\ csv_file = NoFile
    /\ has_use_cases = TRUE
    /\ editor_data = <<>>
    /\ editor_view = <<>>
    /\ topn_max = 0
    /\ top_n = 0
    /\ top_df = <<>>
    /\ narrative = "none"
    /\ steps = 0

\* scored_df = compute_scores(use_cases, w_value, w_feas, w_data, w_change, w_risk)
ScoreCall ==
    /\ status = "call"
    /\ LET call == compute_scores(use_cases, weights)
       IN /\ scored_df' = call.ret
          /\ use_cases' = call.arg
    /\ status' = "returned"
    /\ UNCHANGED <<csv_file, has_use_cases, weights, editor_data, editor_view,
                   topn_max, top_n, sorted_df, top_df, narrative, steps>>

\* The same call once more.
ScoreAgain ==
    /\ status = "returned"
    /\ LET call == compute_scores(use_cases, weights)
       IN /\ scored_df' = call.ret
          /\ use_cases' = call.arg
    /\ status' = "returned_twice"
    /\ UNCHANGED <<csv_file, has_use_cases, weights, editor_data, editor_view,
                   topn_max, top_n, sorted_df, top_df, narrative, steps>>

ScoreNext == ScoreCall \/ ScoreAgain

ScoreSpec == ScoreInit /\ [][ScoreNext]_vars

----------------------------------------------------------------------------
(* Properties of compute_scores, checked under ScoreSpec *)

ZeroWeights == [c \in WeightNames |-> 0]

WeightTotal == weights.w_value + weights.w_feas + weights.w_data
                 + weights.w_change + weights.w_risk

Returned == status \in {"returned", "returned_twice"}

\* A cell that pd.to_numeric cannot read as a number.
NonNumeric(cell) ==
    \/ cell.k = "na"
    \/ cell.k = "text" /\ cell.s \notin DOMAIN NumericText

\* C1: Priority Score is (bv*wValue + tf*wFeasibility + dr*wData - ci*wChange
\* - rk*wRisk) / weightSum for every row of the result, weightSum being the
\* sum of the five weights or 1 when that sum is 0; ratings 5,3,3,4,3 under
\* weights 3, 2.5, 2.5, 2, 2 give 16/12.
C1_PriorityFormula ==
    Returned =>
      /\ \A i \in 1..Len(scored_df) :
           LET r == scored_df[i]
               den == IF WeightTotal = 0 THEN HalfStepsPerUnit ELSE WeightTotal
               num == r.bv.n * weights.w_value + r.tf.n * weights.w_feas
                        + r.dr.n * weights.w_data
                        - r.ci.n * weights.w_change - r.rk.n * weights.w_risk
           IN r.ps[2] > 0 /\ r.ps[1] * den = num * r.ps[2]
      /\ (use_cases = <<DefaultSeed[1]>> /\ weights = DefaultWeights)
            => scored_df[1].ps[1] * 12 = 16 * scored_df[1].ps[2]

C1_Witness ==
    /\ status = "returned"
    /\ use_cases = <<DefaultSeed[1]>>
    /\ weights = DefaultWeights
    /\ scored_df[1].ps = <<4, 3>>

\* C2: with all five weights 0 the call returns, and every row's Priority
\* Score is 0 whatever its ratings are.
C2_ZeroWeights ==
    (Returned /\ weights = ZeroWeights) =>
      /\ Len(scored_df) = Len(use_cases)
      /\ \A i \in 1..Len(scored_df) : scored_df[i].ps = <<0, 1>>

C2_Witness ==
    /\ status = "returned"
    /\ weights = ZeroWeights
    /\ Len(scored_df) = 2
    /\ scored_df[1].bv.n = 5 /\ scored_df[1].rk.n = 5
    /\ scored_df[2].tf.n = 7
    /\ scored_df[1].ps = <<0, 1>>

\* C3: a rating that is missing or is not a number is scored as 0: the row's
\* Priority Score and Readiness Score are numbers, and equal those of the
\* same row with that rating set to 0.
C3_CoercionToZero ==
    Returned =>
      /\ Len(scored_df) = Len(use_cases)
      /\ \A i \in 1..Len(use_cases) : \A col \in RatingCols :
           NonNumeric(use_cases[i][col]) =>
             LET zeroed == [use_cases[i] EXCEPT ![col] = Num(0)]
                 other == compute_scores(<<zeroed>>, weights).ret[1]
             IN /\ scored_df[i].ps[2] > 0
                /\ scored_df[i].rs[2] > 0
                /\ scored_df[i][col] = Num(0)
                /\ scored_df[i].ps = other.ps
                /\ scored_df[i].rs = other.rs

C3_Witness ==
    /\ status = "returned"
    /\ Len(use_cases) = 1
    /\ use_cases[1].tf = Text("abc")
    /\ use_cases[1].ci = NA
    /\ use_cases[1].bv = Num(5) /\ use_cases[1].dr = Num(5) /\ use_cases[1].rk = Num(1)
    /\ weights = DefaultWeights
    /\ scored_df[1].ps = <<17, 8>>
    /\ scored_df[1].rs = <<7, 2>>

\* C4: the result has one row per input row, in the input's order; row i of
\* the result has the name, owner and notes of row i of the input and the
\* scores of row i scored on its own, also when names repeat.
C4_RowsPreserved ==
    Returned =>
      /\ Len(scored_df) = Len(use_cases)
      /\ \A i \in 1..Len(use_cases) :
           i <= Len(scored_df) =>
             LET alone == compute_scores(<<use_cases[i]>>, weights).ret[1]
             IN /\ scored_df[i].name = use_cases[i].name
                /\ scored_df[i].owner = use_cases[i].owner
                /\ scored_df[i].notes = use_cases[i].notes
                /\ scored_df[i].ps = alone.ps
                /\ scored_df[i].rs = alone.rs

C4_Witness ==
    /\ status = "returned"
    /\ Len(use_cases) = 2
    /\ use_cases[1].name = use_cases[2].name
    /\ use_cases[1].owner # use_cases[2].owner
    /\ use_cases[1].tf = NA
    /\ scored_df[1].owner = "Ops" /\ scored_df[2].owner = "IT"
    /\ scored_df[1].ps # scored_df[2].ps

\* C8: Readiness Score is (tf + dr + (5 - ci) + (5 - rk)) / 4 for every row;
\* it is the same under other weights and another Business Value, and lies
\* in [0, 5] when the four ratings it reads lie in [1, 5].
C8_ReadinessFormula ==
    Returned =>
      \A i \in 1..Len(scored_df) :
        LET r == scored_df[i]
            sum == r.tf.n + r.dr.n + (5 - r.ci.n) + (5 - r.rk.n)
            other == compute_scores(<<[use_cases[i] EXCEPT !.bv = Num(1)]>>,
                                    ZeroWeights).ret[1]
        IN /\ r.rs[2] > 0
           /\ r.rs[1] * 4 = sum * r.rs[2]
           /\ i <= Len(use_cases) => r.rs = other.rs
           /\ (\A c \in {"tf", "dr", "ci", "rk"} : r[c].n >= 1 /\ r[c].n <= 5)
                => (r.rs[1] >= 0 /\ r.rs[1] <= 5 * r.rs[2])

C8_Witness ==
    /\ status = "returned"
    /\ weights = DefaultWeights
    /\ Len(scored_df) = 1
    /\ use_cases[1].bv = Num(5)
    /\ scored_df[1].tf.n = 1 /\ scored_df[1].dr.n = 1
    /\ scored_df[1].ci.n = 5 /\ scored_df[1].rk.n = 5
    /\ scored_df[1].rs = <<1, 2>>

\* C9: a call of compute_scores leaves the caller's table (raw ratings, no
\* derived column) and the weights as they were, and the same call made
\* again returns the same table.
C9_NoSideEffects ==
    [][/\ use_cases' = use_cases
       /\ weights' = weights
       /\ status = "returned" => scored_df' = scored_df]_vars

C9_Witness ==
    /\ status = "returned_twice"
    /\ Len(use_cases) = 2
    /\ use_cases[1].bv = Text("abc")
    /\ use_cases[2].bv = Text("4")
    /\ use_cases[1].ps = NoCol /\ use_cases[1].rs = NoCol
    /\ scored_df[1].bv = Num(0)
    /\ scored_df[2].bv = Num(4)
    /\ scored_df[1].ps # NoCol

----------------------------------------------------------------------------
(* Properties of the session, checked under Spec *)

Ran == status \in {"ok", "error_scatter", "error_slider"}

Seed == load_initial_data(csv_file)

\* C5: after every interaction the scored table on display is compute_scores
\* of the stored collection and the sliders' weights as they are now, and
\* the ranking and the top-N table are derived from that scored table.
C5_DisplayedIsCurrent ==
    Ran =>
      /\ scored_df = compute_scores(use_cases, weights).ret
      /\ editor_view = use_cases
      /\ \E p \in PermutationsOf[Len(scored_df)] : sorted_df = Reorder(scored_df, p)
      /\ status = "ok" => top_df = head(sorted_df, top_n)
      /\ status # "ok" => top_df = <<>>

C5_Witness ==
    /\ status = "ok"
    /\ steps = 2
    /\ weights = [DefaultWeights EXCEPT !.w_risk = 0]
    /\ Len(use_cases) = 4
    /\ use_cases # Seed
    /\ use_cases[1].bv = NA
    /\ scored_df[1].ps = <<7, 10>>

\* C6: the ranking is a permutation of the scored table in descending order
\* of Priority Score, and rows with equal Priority Score keep the relative
\* order they have in the scored table.
C6_RankingStable ==
    Ran =>
      \E p \in SortOrders(scored_df) :
        /\ sorted_df = Reorder(scored_df, p)
        /\ \A i, j \in 1..Len(scored_df) :
             (i < j /\ scored_df[p[i]].ps = scored_df[p[j]].ps) => p[i] < p[j]

\* C7: with an empty collection the scored table is empty and the script
\* ends without an error, showing the 'No use cases available' warning.
C7_EmptyIsDisplayable ==
    (Ran /\ Len(use_cases) = 0) =>
      /\ scored_df = <<>>
      /\ status = "ok"
      /\ narrative = "warning"

\* C10: the collection is seeded once; every edit made in the grid is applied
\* to it, and a weight or top-N slider leaves it as it was.
C10_EditsApplied ==
    [][/\ SessionStart => use_cases' = Seed
       /\ \A c \in WeightNames, v \in SliderStops :
            MoveWeightSlider(c, v) => use_cases' = use_cases
       /\ \A n \in 1..topn_max : MoveTopN(n) => use_cases' = use_cases
       /\ \A r \in 1..Len(editor_view), col \in RatingCols, cell \in EditCells :
            EditCell(r, col, cell) => use_cases' = ApplyCellEdit(use_cases, r, col, cell)
       /\ \A r \in 1..Len(editor_view), name \in EditNames :
            EditName(r, name) => use_cases' = ApplyNameEdit(use_cases, r, name)
       /\ AddRow => use_cases' = ApplyAddRow(use_cases)
       /\ \A S \in (SUBSET (1..Len(editor_view))) \ {{}} :
            DeleteRows(S) => use_cases' = ApplyDeleteRows(use_cases, S)]_vars

============================================================================
